---- MODULE Spec2Model ----
(***************************************************************************)
(* Model of StitchLogo_code.py: EXIF orientation correction, the adaptive *)
(* three-band banner builder, the photo/banner compositor and the         *)
(* "Process All" batch handler of the Streamlit app.                      *)
(*                                                                         *)
(* Images are modelled by what the claims observe: their size, the        *)
(* rotation applied to their content and the metadata they carry.  A call *)
(* that can raise returns a record whose status field is "ok" or "raise". *)
(***************************************************************************)
EXTENDS Integers, Sequences, FiniteSets

(***************************************************************************)
(* IEEE-754 double arithmetic, as far as the source uses it.               *)
(*                                                                         *)
(* The source computes its pixel sizes as int(c * (a / b)) on Python       *)
(* floats.  A positive double is modelled as man * 2^exp with man an      *)
(* integer of MantissaBits bits; man is a little-endian sequence of limbs  *)
(* in base LimbBase, because it does not fit a 32-bit integer.             *)
(* Division and multiplication round to nearest, ties to even.             *)
(***************************************************************************)
MantissaBits == 53
LimbBits == 15
LimbBase == 32768

\* The helpers that recurse are functions: their arguments are values.
Pow2[n \in Nat] == IF n = 0 THEN 1 ELSE 2 * Pow2[n - 1]

BitLen[n \in Nat] == IF n = 0 THEN 0 ELSE 1 + BitLen[n \div 2]

\* Drop the most significant limbs that are zero.
BigNorm[n \in Seq(Nat)] ==
    IF n = <<>> THEN <<>>
    ELSE IF n[Len(n)] = 0 THEN BigNorm[SubSeq(n, 1, Len(n) - 1)]
    ELSE n

BigOfInt(k) ==
    BigNorm[<<k % LimbBase, (k \div LimbBase) % LimbBase,
              k \div (LimbBase * LimbBase)>>]

\* The value of a big integer below 2^31.
BigToInt(n) ==
    (IF Len(n) >= 1 THEN n[1] ELSE 0)
    + (IF Len(n) >= 2 THEN n[2] * LimbBase ELSE 0)
    + (IF Len(n) >= 3 THEN n[3] * LimbBase * LimbBase ELSE 0)

BigBitLen(n) ==
    IF n = <<>> THEN 0 ELSE (Len(n) - 1) * LimbBits + BitLen[n[Len(n)]]

\* The limbs of n * c + carry from limb i upward, for 0 <= c <= LimbBase.
BigMulFrom[n \in Seq(Nat), c \in Nat, i \in Nat, carry \in Nat] ==
    IF i > Len(n) THEN (IF carry = 0 THEN <<>> ELSE <<carry>>)
    ELSE <<(n[i] * c + carry) % LimbBase>>
             \o BigMulFrom[n, c, i + 1, (n[i] * c + carry) \div LimbBase]

BigMulSmall(n, c) == BigNorm[BigMulFrom[n, c, 1, 0]]

\* n * 2^s.
BigShl[n \in Seq(Nat), s \in Nat] ==
    IF s = 0 THEN n
    ELSE IF s >= LimbBits THEN BigShl[BigMulSmall(n, LimbBase), s - LimbBits]
    ELSE BigMulSmall(n, Pow2[s])

\* Quotient and remainder of n by d, 0 < d <= LimbBase, from limb i downward:
\* acc collects the quotient's limbs, least significant first.
BigDivFrom[n \in Seq(Nat), d \in Nat, i \in Nat, rem \in Nat, acc \in Seq(Nat)] ==
    IF i = 0 THEN [quo |-> BigNorm[acc], rem |-> rem]
    ELSE BigDivFrom[n, d, i - 1, (rem * LimbBase + n[i]) % d,
                    <<(rem * LimbBase + n[i]) \div d>> \o acc]

BigDivSmall(n, d) == BigDivFrom[n, d, Len(n), 0, <<>>]

\* floor(n / 2^s).
BigShr[n \in Seq(Nat), s \in Nat] ==
    IF s = 0 THEN n
    ELSE IF s >= LimbBits THEN BigShr[BigDivSmall(n, LimbBase).quo, s - LimbBits]
    ELSE BigDivSmall(n, Pow2[s]).quo

BigInc[n \in Seq(Nat), i \in Nat] ==
    IF i > Len(n) THEN Append(n, 1)
    ELSE IF n[i] + 1 < LimbBase THEN [n EXCEPT ![i] = n[i] + 1]
    ELSE BigInc[[n EXCEPT ![i] = 0], i + 1]

BigIsOdd(n) == n # <<>> /\ n[1] % 2 = 1

FloatZero == [man |-> <<>>, exp |-> 0]

\* A quotient with its remainder.
Quotients == [quo : Seq(Nat), rem : Nat]

\* d.quo rounded up when the discarded part d.rem is more than half of unit,
\* or exactly half and d.quo is odd.
RoundHalfEven[d \in Quotients, unit \in Nat] ==
    IF 2 * d.rem > unit \/ (2 * d.rem = unit /\ BigIsOdd(d.quo))
    THEN BigInc[d.quo, 1]
    ELSE d.quo

\* The shift s for which a * 2^s / b has MantissaBits bits.
DivShift(a, b) ==
    (MantissaBits - 1) - (BitLen[a] - BitLen[b])
    + (IF (IF BitLen[a] >= BitLen[b]
           THEN a >= b * Pow2[BitLen[a] - BitLen[b]]
           ELSE a * Pow2[BitLen[b] - BitLen[a]] >= b)
       THEN 0 ELSE 1)

\* a * 2^s / b, rounded.
DivShifted[a \in Nat, b \in Nat, s \in Nat] ==
    [man |-> RoundHalfEven[BigDivSmall(BigShl[BigOfInt(a), s], b), b],
     exp |-> -s]

\* float(a) / float(b) for integers a >= 0, b > 0 up to LimbBase.
FloatDiv(a, b) ==
    IF a = 0 THEN FloatZero ELSE DivShifted[a, b, DivShift(a, b)]

\* The product p * 2^e rounded to MantissaBits bits.
RoundProduct[p \in Seq(Nat), e \in Int, drop \in Int] ==
    IF drop <= 0 THEN [man |-> p, exp |-> e]
    ELSE [man |-> RoundHalfEven[BigDivSmall(p, Pow2[drop]), Pow2[drop]],
          exp |-> e + drop]

ProductOf[p \in Seq(Nat), e \in Int] ==
    RoundProduct[p, e, BigBitLen(p) - MantissaBits]

\* float(c) * x for an integer 0 <= c <= LimbBase and a double x >= 0.
FloatMulInt(c, x) ==
    IF c = 0 \/ x.man = <<>> THEN FloatZero
    ELSE ProductOf[BigMulSmall(x.man, c), x.exp]

\* int(x) for a double 0 <= x < 2^31: truncation toward zero.
FloatTrunc(x) ==
    IF x.man = <<>> THEN 0
    ELSE IF x.exp >= 0 THEN BigToInt(BigShl[x.man, x.exp])
    ELSE BigToInt(BigShr[x.man, -x.exp])

\* int(c * (a / b)) as Python evaluates it on floats.
TruncMulDivOf[c \in Nat, a \in Nat, b \in Nat] ==
    FloatTrunc(FloatMulInt(c, FloatDiv(a, b)))

TruncMulDiv(c, a, b) == TruncMulDivOf[c, a, b]

(***************************************************************************)
(* Bounds of the checked inputs.                                           *)
(***************************************************************************)
MaxTemplateDim == 3
MaxTargetW == 4
MaxTargetH == 3

\* A fraction num/den stands for the double nearest to it, as a Python float
\* literal such as 0.37 does.
Frac(num, den) == [num |-> num, den |-> den]

\* Fixed parameters of the app.  RIGHT_FRAC is 1.0 - 0.37 - 0.38, which
\* evaluates to exactly 0.25 in double arithmetic.
BASE_RATIO == Frac(1, 10)
EXPONENT == Frac(4, 5)
LEFT_FRAC == Frac(37, 100)
CENTER_FRAC == Frac(38, 100)
RIGHT_FRAC == Frac(25, 100)
SLICE_RATIOS == <<LEFT_FRAC, CENTER_FRAC, RIGHT_FRAC>>

Sizes == [w : Nat, h : Nat]
Size(w, h) == [w |-> w, h |-> h]

(***************************************************************************)
(* PIL primitives.                                                         *)
(***************************************************************************)
\* What Image.resize gives: an image of a size, or a raised ValueError.
ResizeOutcomes == [status : STRING, w : Int, h : Int]

\* Image.resize(size): a copy when the size is unchanged; otherwise the
\* resampler, which raises ValueError unless both dimensions are >= 1.
ResizeOf[img \in Sizes, w \in Int, h \in Int] ==
    IF img.w = w /\ img.h = h THEN [status |-> "ok", w |-> w, h |-> h]
    ELSE IF w < 1 \/ h < 1 THEN [status |-> "raise", w |-> 0, h |-> 0]
    ELSE [status |-> "ok", w |-> w, h |-> h]

Resize(img, w, h) == ResizeOf[Size(img.w, img.h), w, h]

\* Image.crop(box): the size of the cropped region; an empty box is legal.
Crop(box) == Size(box[3] - box[1], box[4] - box[2])

(***************************************************************************)
(* build_adaptive_template                                                 *)
(***************************************************************************)
\* A variant: the quotient rounded to the nearest integer.
ScaledWRounded(orig_w, orig_h, target_height) ==
    (2 * orig_w * target_height + orig_h) \div (2 * orig_h)

\* scaled_w = int(orig_w * scale), scale = target_height / orig_h
ScaledW(orig_w, orig_h, target_height) ==
    TruncMulDiv(orig_w, target_height, orig_h)

\* left_w = int(scaled_w * left_ratio)
LeftW(scaled_w, slice_ratios) ==
    TruncMulDiv(scaled_w, slice_ratios[1].num, slice_ratios[1].den)

\* A variant: the product rounded up.
RightWCeil(scaled_w, slice_ratios) ==
    (scaled_w * slice_ratios[3].num + slice_ratios[3].den - 1)
        \div slice_ratios[3].den

\* right_w = int(scaled_w * right_ratio)
RightW(scaled_w, slice_ratios) ==
    TruncMulDiv(scaled_w, slice_ratios[3].num, slice_ratios[3].den)

CenterW(scaled_w, left_w, right_w) == scaled_w - left_w - right_w

\* The crop boxes (x0, y0, x1, y1) of the three bands.
LeftBox(left_w, target_height) == <<0, 0, left_w, target_height>>
CenterBox(left_w, center_w, target_height) ==
    <<left_w, 0, left_w + center_w, target_height>>
RightBox(left_w, center_w, scaled_w, target_height) ==
    <<left_w + center_w, 0, scaled_w, target_height>>

\* A variant: the height kept when the width is reduced.
NewHKept(target_height, target_width, left_w, right_w) == target_height

\* new_h = int(target_height * (target_width / (left_w + right_w)))
NewH(target_height, target_width, left_w, right_w) ==
    TruncMulDiv(target_height, target_width, left_w + right_w)

Ratios == Seq([num : Nat, den : Nat])

\* The locals after the three crops.
Sliced(scaled_w, left_w, center_w, right_w, target_height) ==
    [status |-> "ok", branch |-> "none", width |-> 0, height |-> 0,
     scaled_w |-> scaled_w, left_w |-> left_w, center_w |-> center_w,
     right_w |-> right_w,
     boxes |-> <<LeftBox(left_w, target_height),
                 CenterBox(left_w, center_w, target_height),
                 RightBox(left_w, center_w, scaled_w, target_height)>>,
     pastes |-> <<>>]

Banners ==
    [status : {"ok", "raise"}, branch : {"none", "scale", "overflow", "normal"},
     width : Int, height : Int, scaled_w : Int, left_w : Int, center_w : Int,
     right_w : Int, boxes : Seq(Seq(Int)), pastes : Seq(Seq(Int))]

\* if left_w + right_w > target_width: the bands side by side, scaled down.
OverflowBranch[b \in Banners, target_width \in Int, target_height \in Int, out \in ResizeOutcomes] ==
    [b EXCEPT !.status = out.status, !.branch = "overflow",
              !.width = out.w, !.height = out.h,
              !.pastes = <<<<0, Crop(b.boxes[1]).w>>,
                           <<b.left_w, Crop(b.boxes[3]).w>>>>]

\* else: the center band stretched to the remaining width.
NormalBranch[b \in Banners, target_width \in Int, target_height \in Int, needed \in Int, center_stretched \in ResizeOutcomes] ==
    IF center_stretched.status = "raise"
    THEN [b EXCEPT !.status = "raise", !.branch = "normal"]
    ELSE [b EXCEPT !.branch = "normal",
                   !.width = target_width, !.height = target_height,
                   !.pastes = <<<<0, Crop(b.boxes[1]).w>>,
                                <<b.left_w, center_stretched.w>>,
                                <<b.left_w + needed, Crop(b.boxes[3]).w>>>>]

Branches[b \in Banners, target_width \in Int, target_height \in Int] ==
    IF b.left_w + b.right_w > target_width
    THEN OverflowBranch[b, target_width, target_height,
                        Resize(Size(b.left_w + b.right_w, target_height),
                               target_width,
                               NewH(target_height, target_width,
                                    b.left_w, b.right_w))]
    ELSE NormalBranch[b, target_width, target_height,
                      target_width - b.left_w - b.right_w,
                      Resize(Crop(b.boxes[2]),
                             target_width - b.left_w - b.right_w,
                             target_height)]

Bands[scaled_w \in Int, left_w \in Int, right_w \in Int, target_width \in Int, target_height \in Int] ==
    Branches[Sliced(scaled_w, left_w, CenterW(scaled_w, left_w, right_w),
                    right_w, target_height),
             target_width, target_height]

Scaled[template \in Sizes, scaled_w \in Int, target_width \in Int, target_height \in Int, slice_ratios \in Ratios] ==
    IF Resize(template, scaled_w, target_height).status = "raise"
    THEN [Sliced(scaled_w, 0, 0, 0, target_height)
             EXCEPT !.status = "raise", !.branch = "scale", !.boxes = <<>>]
    ELSE Bands[scaled_w, LeftW(scaled_w, slice_ratios),
               RightW(scaled_w, slice_ratios), target_width, target_height]

\* The function's steps in order, each handing its locals to the next:
\* scale, the three band widths and crops, then one of the two branches.
BuildAdaptiveTemplate(template, target_width, target_height, slice_ratios) ==
    Scaled[Size(template.w, template.h),
           ScaledW(template.w, template.h, target_height),
           target_width, target_height, slice_ratios]

(***************************************************************************)
(* process_image                                                           *)
(***************************************************************************)
BigPowMul[n \in Seq(Nat), c \in Nat, e \in Nat] ==
    IF e = 0 THEN n ELSE BigPowMul[BigMulSmall(n, c), c, e - 1]

\* a <= b for normalized big integers, comparing from limb i downward.
BigLeqFrom[a \in Seq(Nat), b \in Seq(Nat), i \in Nat] ==
    IF i = 0 THEN TRUE
    ELSE IF a[i] # b[i] THEN a[i] < b[i]
    ELSE BigLeqFrom[a, b, i - 1]

BigLeq[a \in Seq(Nat), b \in Seq(Nat)] ==
    IF Len(a) # Len(b) THEN Len(a) < Len(b) ELSE BigLeqFrom[a, b, Len(a)]

\* k <= w * base_ratio * (w / h) ^ (-exponent), for base_ratio = bn/bd and
\* exponent = ep/eq, both sides raised to the power eq and cleared of
\* denominators:  k^eq * bd^eq * w^ep <= w^eq * bn^eq * h^ep.
HeightFits(k, w, h, base_ratio, exponent) ==
    \/ k = 0
    \/ BigLeq[BigPowMul[BigPowMul[BigPowMul[<<1>>, k, exponent.den],
                                  base_ratio.den, exponent.den],
                        w, exponent.num],
              BigPowMul[BigPowMul[BigPowMul[<<1>>, w, exponent.den],
                                  base_ratio.num, exponent.den],
                        h, exponent.num]]

\* The operands of line 78.
HeightArgs ==
    [w : Nat, h : Nat, base_ratio : [num : Nat, den : Nat],
     exponent : [num : Nat, den : Nat]]

\* The first power of two, from p on, that does not fit.
FirstUnfit[p \in Nat, a \in HeightArgs] ==
    IF 2 * p >= LimbBase \/ ~HeightFits(p, a.w, a.h, a.base_ratio, a.exponent)
    THEN p
    ELSE FirstUnfit[2 * p, a]

\* The largest k that fits, knowing that lo fits and lo + 2 * bit does not.
HeightSearch[lo \in Nat, bit \in Nat, a \in HeightArgs] ==
    IF bit = 0 THEN lo
    ELSE IF HeightFits(lo + bit, a.w, a.h, a.base_ratio, a.exponent)
    THEN HeightSearch[lo + bit, bit \div 2, a]
    ELSE HeightSearch[lo, bit \div 2, a]

HeightBelow[p \in Nat, a \in HeightArgs] ==
    HeightSearch[p \div 2, p \div 4, a]

\* h1 = int(w * base_ratio * (aspect ** (-exponent))), aspect = w / h: the
\* largest integer k that fits.  The power is taken exactly; the inputs
\* drawn below are those on which CPython's float evaluation agrees (it can
\* be one less where the exact value is an integer, as for a 160 x 5 photo).
BannerHeightOf[a \in HeightArgs] ==
    HeightBelow[FirstUnfit[1, a], a]

BannerHeight(w, h, base_ratio, exponent) ==
    BannerHeightOf[[w |-> w, h |-> h, base_ratio |-> base_ratio,
                    exponent |-> exponent]]

\* out.paste(photo, (0, 0))
PhotoAt == <<0, 0>>

\* A variant: the banner to the right of the photo.
BannerAtSwapped(h) == <<h, 0>>

\* out.paste(adapt, (0, h))
BannerAt(h) == <<0, h>>

\* The box (x0, y0, x1, y1) an image of size sz covers when pasted at pos.
PasteBox(pos, sz) == <<pos[1], pos[2], pos[1] + sz.w, pos[2] + sz.h>>

\* out = Image.new("RGB", (w, h + adapt.height)) and the two pastes.
Stacked[photo \in Sizes, h1 \in Int, adapt \in Banners] ==
    IF adapt.status = "raise"
    THEN [status |-> "raise", h1 |-> h1, adapt |-> adapt,
          width |-> 0, height |-> 0,
          photo_box |-> <<>>, banner_box |-> <<>>]
    ELSE [status |-> "ok", h1 |-> h1, adapt |-> adapt,
          width |-> photo.w, height |-> photo.h + adapt.height,
          photo_box |-> PasteBox(PhotoAt, photo),
          banner_box |-> PasteBox(BannerAt(photo.h),
                                  Size(adapt.width, adapt.height))]

WithBanner[photo \in Sizes, template \in Sizes, h1 \in Int, slice_ratios \in Ratios] ==
    Stacked[photo, h1,
            BuildAdaptiveTemplate(template, photo.w, h1, slice_ratios)]

ProcessImage(photo, template, base_ratio, exponent, slice_ratios) ==
    WithBanner[Size(photo.w, photo.h), template,
               BannerHeight(photo.w, photo.h, base_ratio, exponent),
               slice_ratios]

(***************************************************************************)
(* correct_orientation                                                     *)
(*                                                                         *)
(* An image is its size, the quarter turns (counter-clockwise, as          *)
(* Image.rotate turns) applied to its content, and what img._getexif()     *)
(* does: the attribute is missing (a plain Image, as convert and rotate    *)
(* return), the call raises, it returns None, it returns a dictionary      *)
(* without the Orientation tag, or one with the tag's value.               *)
(***************************************************************************)
MaxImgDim == 2
MaxOrientTag == 9

\* What img._getexif() does.  kind: "no_getexif", "getexif_raises", "none"
\* or "dict"; for a dictionary, has_tag and orient give exif.get(tag).
Exif(kind, has_tag, orient) ==
    [kind |-> kind, has_tag |-> has_tag, orient |-> orient]

NoGetexif == Exif("no_getexif", FALSE, 0)

ExifStates ==
    {Exif(k, FALSE, 0) : k \in {"no_getexif", "getexif_raises", "none", "dict"}}
        \cup {Exif("dict", TRUE, o) : o \in 0..MaxOrientTag}

Img(w, h, rot, exif) == [w |-> w, h |-> h, rot |-> rot, exif |-> exif]

\* A variant: the angles of 6 and 8 exchanged.
RotationForMirrored(orient) ==
    IF orient = 3 THEN 180 ELSE IF orient = 6 THEN 90
    ELSE IF orient = 8 THEN 270 ELSE 0

\* The angle of the rotation applied for an orientation value; 0 is none.
RotationFor(orient) ==
    IF orient = 3 THEN 180 ELSE IF orient = 6 THEN 270
    ELSE IF orient = 8 THEN 90 ELSE 0

\* img.rotate(angle, expand=True): a new plain Image.
Rotate(img, angle) ==
    Img(IF angle \in {90, 270} THEN img.h ELSE img.w,
        IF angle \in {90, 270} THEN img.w ELSE img.h,
        (img.rot + angle \div 90) % 4,
        NoGetexif)

\* The body of the try block: raised, or the value of img at its end.
OrientationBody(img) ==
    IF img.exif.kind \in {"no_getexif", "getexif_raises"}
    THEN [raised |-> TRUE, img |-> img]
    ELSE IF img.exif.kind = "none" THEN [raised |-> FALSE, img |-> img]
    ELSE LET angle == IF img.exif.has_tag THEN RotationFor(img.exif.orient)
                      ELSE 0
         IN  [raised |-> FALSE,
              img |-> IF angle = 0 THEN img ELSE Rotate(img, angle)]

\* except Exception: pass; return img
CorrectOrientation(img) ==
    LET body == OrientationBody(img)
    IN  IF body.raised THEN img ELSE body.img

(***************************************************************************)
(* The "Process All" handler.                                              *)
(***************************************************************************)
MaxItems == 3

\* 200 * 1024 * 1024
MaxUploadBytes == 209715200

FileName(stem, ext) == [stem |-> stem, ext |-> ext]

\* str.lower() on the extension of a name.
Lower(ext) ==
    CASE ext = "JPG" -> "jpg"
      [] ext = "JPEG" -> "jpeg"
      [] ext = "PNG" -> "png"
      [] ext = "ZIP" -> "zip"
      [] OTHER -> ext

\* name.lower().endswith(suffixes)
EndsWithLower(name, suffixes) == Lower(name.ext) \in suffixes

IsZip(file) == EndsWithLower(file.name, {"zip"})
IsImageEntry(info) == EndsWithLower(info.name, {"jpg", "jpeg", "png"})

\* f"stitched_{name}"
StitchedName(name) == [prefix |-> "stitched_", name |-> name]

\* Image.open(f).convert("RGB"): a plain RGB Image of the photo's size.
Decode(item) == Img(item.photo.w, item.photo.h, 0, NoGetexif)

\* The lines of the loop body from correct_orientation to process_image.
Stitch(item, template) ==
    ProcessImage(CorrectOrientation(Decode(item)), template,
                 BASE_RATIO, EXPONENT, SLICE_RATIOS)

RECURSIVE TotalSize(_)
TotalSize(files) ==
    IF files = <<>> THEN 0 ELSE Head(files).size + TotalSize(Tail(files))

\* A variant: a total of exactly 200 MB refused as well.
TooLargeInclusive(files) == TotalSize(files) >= MaxUploadBytes

\* total_size > 200 * 1024 * 1024
TooLarge(files) == TotalSize(files) > MaxUploadBytes

(***************************************************************************)
(* State.                                                                  *)
(***************************************************************************)
VARIABLES
    bArgs,      \* build_adaptive_template: the arguments of the call
    bRes,       \* build_adaptive_template: <<>> before the call, <<result>> after
    sArgs,      \* process_image: the arguments of the call
    sRes,       \* process_image: <<>> before the call, <<result>> after
    oHist,      \* correct_orientation: the input image, then each result
    uploads,    \* the files held by the uploader widget
    templateFile, \* the file at TEMPLATE_PATH: whether it loads, and its size
    pc,         \* the handler: "off", "idle", "loop", "done", "rejected", "crashed"
    cur,        \* index into uploads of the file the loop is at
    ent,        \* index of the entry the inner loop is at, in a zip
    archive,    \* names written to the output zip, in order
    errors,     \* st.error messages shown
    decoded,    \* number of photos Image.open has decoded
    downloadOffered \* whether st.download_button was reached

bannerVars == <<bArgs, bRes>>
stitchVars == <<sArgs, sRes>>
batchVars == <<uploads, templateFile, pc, cur, ent, archive, errors, decoded,
               downloadOffered>>
vars == <<bArgs, bRes, sArgs, sRes, oHist, uploads, templateFile, pc, cur,
          ent, archive, errors, decoded, downloadOffered>>

\* Slice ratios: non-negative fractions summing to at most 1.
RatioChoices ==
    {SLICE_RATIOS,
     <<Frac(45, 100), Frac(30, 100), Frac(25, 100)>>,
     <<Frac(1, 2), Frac(0, 1), Frac(1, 2)>>,
     <<Frac(0, 1), Frac(1, 1), Frac(0, 1)>>,
     <<Frac(1, 1), Frac(0, 1), Frac(0, 1)>>,
     <<Frac(3, 10), Frac(3, 10), Frac(3, 10)>>}

NoArgs == [none |-> TRUE]

\* The file at TEMPLATE_PATH: whether Image.open loads it, and its size.
TemplateFile(loads, size) == [loads |-> loads, size |-> size]
MissingTemplate == TemplateFile(FALSE, Size(0, 0))

BannerIdle == bArgs = NoArgs /\ bRes = <<>>
StitchIdle == sArgs = NoArgs /\ sRes = <<>>
OrientIdle == oHist = <<>>
BatchIdle ==
    /\ uploads = <<>> /\ templateFile = MissingTemplate /\ pc = "off"
    /\ cur = 0 /\ ent = 0 /\ archive = <<>> /\ errors = <<>>
    /\ decoded = 0 /\ downloadOffered = FALSE

(***************************************************************************)
(* build_adaptive_template applied to bounded inputs.                      *)
(***************************************************************************)
TemplateSizes ==
    {Size(w, h) : w \in 1..MaxTemplateDim, h \in 1..MaxTemplateDim}
        \cup {Size(1000, 200), Size(11, 11)}

TargetWidths == (1..MaxTargetW) \cup {800}
TargetHeights == (0..MaxTargetH) \cup {15, 63}

InitBanner ==
    /\ bArgs \in [template : TemplateSizes, target_width : TargetWidths,
                  target_height : TargetHeights, slice_ratios : RatioChoices]
    /\ bRes = <<>>
    /\ StitchIdle /\ OrientIdle /\ BatchIdle

CallBuild ==
    /\ bArgs # NoArgs /\ bRes = <<>>
    /\ bRes' = <<BuildAdaptiveTemplate(bArgs.template, bArgs.target_width,
                                       bArgs.target_height, bArgs.slice_ratios)>>
    /\ UNCHANGED <<bArgs, stitchVars, oHist, batchVars>>

NextBanner == CallBuild

SpecBanner == InitBanner /\ [][NextBanner]_vars

(***************************************************************************)
(* process_image applied to bounded inputs.                                *)
(***************************************************************************)
MaxPhotoDim == 3

PhotoSizes ==
    {Size(w, h) : w \in 1..MaxPhotoDim, h \in 1..MaxPhotoDim}
        \cup {Size(800, 600), Size(2, 8), Size(5, 5), Size(20, 10)}

StitchTemplates == {Size(1000, 200), Size(3, 1), Size(2, 3)}
BaseRatios == {BASE_RATIO, Frac(1, 2)}
Exponents == {EXPONENT, Frac(2, 1), Frac(1, 2)}

InitStitch ==
    /\ sArgs \in [photo : PhotoSizes, template : StitchTemplates,
                  base_ratio : BaseRatios, exponent : Exponents,
                  slice_ratios : {SLICE_RATIOS, <<Frac(1, 2), Frac(0, 1), Frac(1, 2)>>}]
    /\ sRes = <<>>
    /\ BannerIdle /\ OrientIdle /\ BatchIdle

CallProcess ==
    /\ sArgs # NoArgs /\ sRes = <<>>
    /\ sRes' = <<ProcessImage(sArgs.photo, sArgs.template, sArgs.base_ratio,
                              sArgs.exponent, sArgs.slice_ratios)>>
    /\ UNCHANGED <<sArgs, bannerVars, oHist, batchVars>>

NextStitch == CallProcess

SpecStitch == InitStitch /\ [][NextStitch]_vars

(***************************************************************************)
(* correct_orientation applied, up to MaxApplications times in a row, to   *)
(* bounded inputs.                                                         *)
(***************************************************************************)
MaxApplications == 2

OrientImages ==
    {Img(w, h, 0, e) : w \in 1..MaxImgDim, h \in 1..MaxImgDim, e \in ExifStates}

InitOrient ==
    /\ \E img \in OrientImages : oHist = <<img>>
    /\ BannerIdle /\ StitchIdle /\ BatchIdle

ApplyCorrect ==
    /\ oHist # <<>> /\ Len(oHist) <= MaxApplications
    /\ oHist' = Append(oHist, CorrectOrientation(oHist[Len(oHist)]))
    /\ UNCHANGED <<bannerVars, stitchVars, batchVars>>

NextOrient == ApplyCorrect

SpecOrient == InitOrient /\ [][NextOrient]_vars

(***************************************************************************)
(* The app: files are added to the uploader, then "Process All" runs.      *)
(***************************************************************************)
\* File sizes in bytes: a small file, and a file of 100 * 1024 * 1024 bytes,
\* two of which are exactly at the cap.
Bytes == [small |-> 1, halfCap |-> MaxUploadBytes \div 2]

PhotoFile(name, size, decodes, photo) ==
    [name |-> name, size |-> size, decodes |-> decodes, photo |-> photo,
     entries |-> <<>>]

ZipEntry(name, decodes, photo) ==
    [name |-> name, decodes |-> decodes, photo |-> photo]

ZipFile(name, size, entries) ==
    [name |-> name, size |-> size, decodes |-> FALSE, photo |-> Size(0, 0),
     entries |-> entries]

PhotoFiles ==
    {PhotoFile(FileName("a", "jpg"), Bytes.small, TRUE, Size(20, 10)),
     PhotoFile(FileName("B", "JPG"), Bytes.halfCap, TRUE, Size(20, 10)),
     PhotoFile(FileName("bad", "png"), Bytes.small, FALSE, Size(0, 0)),
     PhotoFile(FileName("tiny", "jpeg"), Bytes.small, TRUE, Size(5, 5))}

ZipEntries ==
    {ZipEntry(FileName("p", "JPG"), TRUE, Size(20, 10)),
     ZipEntry(FileName("q", "png"), FALSE, Size(0, 0)),
     ZipEntry(FileName("notes", "txt"), FALSE, Size(0, 0))}

RECURSIVE SeqsUpTo(_, _)
SeqsUpTo(S, n) ==
    IF n = 0 THEN {<<>>}
    ELSE LET shorter == SeqsUpTo(S, n - 1)
         IN  shorter \cup {Append(q, x) : q \in shorter, x \in S}

ZipFiles ==
    {ZipFile(FileName("Z", "ZIP"), Bytes.small, es) : es \in SeqsUpTo(ZipEntries, MaxItems)}

\* The number of items a file adds to a batch.
Weight(file) == IF Len(file.entries) > 1 THEN Len(file.entries) ELSE 1

RECURSIVE TotalWeight(_)
TotalWeight(files) ==
    IF files = <<>> THEN 0 ELSE Weight(Head(files)) + TotalWeight(Tail(files))

TemplateFiles == {MissingTemplate, TemplateFile(TRUE, Size(1000, 200))}

InitBatch ==
    /\ uploads = <<>>
    /\ templateFile \in TemplateFiles
    /\ pc = "idle"
    /\ cur = 0 /\ ent = 0
    /\ archive = <<>> /\ errors = <<>>
    /\ decoded = 0 /\ downloadOffered = FALSE
    /\ BannerIdle /\ StitchIdle /\ OrientIdle

\* st.file_uploader: the user adds a file before pressing the button.
Upload ==
    /\ pc = "idle"
    /\ \E f \in PhotoFiles \cup ZipFiles :
          /\ TotalWeight(uploads) + Weight(f) <= MaxItems
          /\ uploads' = Append(uploads, f)
    /\ UNCHANGED <<templateFile, pc, cur, ent, archive, errors, decoded,
                   downloadOffered, bannerVars, stitchVars, oHist>>

Reject(message) ==
    /\ pc' = "rejected"
    /\ errors' = Append(errors, message)
    /\ UNCHANGED <<uploads, templateFile, cur, ent, archive, decoded,
                   downloadOffered, bannerVars, stitchVars, oHist>>

\* if not uploads: st.error(...)
RejectEmpty ==
    /\ pc = "idle"
    /\ uploads = <<>>
    /\ Reject("Please upload at least one photo or a ZIP file.")

\* if total_size > 200 * 1024 * 1024: st.error(...)
RejectSize ==
    /\ pc = "idle"
    /\ uploads # <<>>
    /\ TooLarge(uploads)
    /\ Reject("Total upload size exceeds 200 MB. Please reduce the upload.")

\* except Exception: st.error(...)
RejectTemplate ==
    /\ pc = "idle"
    /\ uploads # <<>>
    /\ ~TooLarge(uploads)
    /\ ~templateFile.loads
    /\ Reject("Cannot load template from 'logo_template.jpeg'.")

\* else: zip_buf = BytesIO(); with zipfile.ZipFile(zip_buf, mode="w") as zf:
StartBatch ==
    /\ pc = "idle"
    /\ uploads # <<>>
    /\ ~TooLarge(uploads)
    /\ templateFile.loads
    /\ pc' = "loop"
    /\ cur' = 1 /\ ent' = 1
    /\ UNCHANGED <<uploads, templateFile, archive, errors, decoded,
                   downloadOffered, bannerVars, stitchVars, oHist>>

\* One photo through the loop body: Image.open, correct_orientation,
\* process_image, save, zf.writestr.  An exception is caught nowhere: it
\* ends the script run.  The indices move to nextCur, nextEnt on success.
ProcessItem(item, nextCur, nextEnt) ==
    IF ~item.decodes
    THEN /\ pc' = "crashed"
         /\ UNCHANGED <<cur, ent, archive, decoded>>
    ELSE LET stitched == Stitch(item, templateFile.size)
         IN  /\ decoded' = decoded + 1
             /\ IF stitched.status = "raise"
                THEN /\ pc' = "crashed"
                     /\ UNCHANGED <<cur, ent, archive>>
                ELSE /\ archive' = Append(archive, StitchedName(item.name))
                     /\ cur' = nextCur /\ ent' = nextEnt
                     /\ UNCHANGED pc

\* else: photo = Image.open(file).convert("RGB") ...
ProcessPhotoFile ==
    /\ pc = "loop"
    /\ cur <= Len(uploads)
    /\ ~IsZip(uploads[cur])
    /\ ProcessItem(uploads[cur], cur + 1, 1)
    /\ UNCHANGED <<uploads, templateFile, errors, downloadOffered,
                   bannerVars, stitchVars, oHist>>

\* for info in in_zip.infolist(): if info.filename.lower().endswith(...)
ProcessZipEntry ==
    /\ pc = "loop"
    /\ cur <= Len(uploads)
    /\ IsZip(uploads[cur])
    /\ ent <= Len(uploads[cur].entries)
    /\ IsImageEntry(uploads[cur].entries[ent])
    /\ ProcessItem(uploads[cur].entries[ent], cur, ent + 1)
    /\ UNCHANGED <<uploads, templateFile, errors, downloadOffered,
                   bannerVars, stitchVars, oHist>>

\* An entry whose name does not end in an image extension is passed over.
SkipZipEntry ==
    /\ pc = "loop"
    /\ cur <= Len(uploads)
    /\ IsZip(uploads[cur])
    /\ ent <= Len(uploads[cur].entries)
    /\ ~IsImageEntry(uploads[cur].entries[ent])
    /\ ent' = ent + 1
    /\ UNCHANGED <<uploads, templateFile, pc, cur, archive, errors, decoded,
                   downloadOffered, bannerVars, stitchVars, oHist>>

\* The inner loop is exhausted: the outer loop moves to the next upload.
CloseZip ==
    /\ pc = "loop"
    /\ cur <= Len(uploads)
    /\ IsZip(uploads[cur])
    /\ ent > Len(uploads[cur].entries)
    /\ cur' = cur + 1 /\ ent' = 1
    /\ UNCHANGED <<uploads, templateFile, pc, archive, errors, decoded,
                   downloadOffered, bannerVars, stitchVars, oHist>>

\* zip_buf.seek(0); st.download_button(...)
OfferDownload ==
    /\ pc = "loop"
    /\ cur > Len(uploads)
    /\ pc' = "done"
    /\ downloadOffered' = TRUE
    /\ UNCHANGED <<uploads, templateFile, cur, ent, archive, errors, decoded,
                   bannerVars, stitchVars, oHist>>

Next ==
    \/ Upload
    \/ RejectEmpty
    \/ RejectSize
    \/ RejectTemplate
    \/ StartBatch
    \/ ProcessPhotoFile
    \/ ProcessZipEntry
    \/ SkipZipEntry
    \/ CloseZip
    \/ OfferDownload

Spec == InitBatch /\ [][Next]_vars

(***************************************************************************)
(* Properties.                                                             *)
(***************************************************************************)
Built == bRes # <<>>
Banner == bRes[1]
PositiveBannerArgs ==
    /\ bArgs.template.w > 0 /\ bArgs.template.h > 0
    /\ bArgs.target_width > 0 /\ bArgs.target_height > 0

\* C1: for every template of positive size and positive target_width and
\* target_height, build_adaptive_template returns a banner whose width is
\* target_width in both branches and whose height is target_height whenever
\* left_w + right_w <= target_width, the zero-width center band included.
C1_BannerExactSize ==
    (Built /\ PositiveBannerArgs) =>
        /\ Banner.status = "ok"
        /\ Banner.width = bArgs.target_width
        /\ (Banner.left_w + Banner.right_w <= bArgs.target_width
               => Banner.height = bArgs.target_height)

C9_BandsPartition ==
    (Built /\ Banner.branch \in {"normal", "overflow"}) =>
        LET l  == bArgs.slice_ratios[1]
            r  == bArgs.slice_ratios[3]
            sw == Banner.scaled_w
        IN  /\ Banner.left_w * l.den <= sw * l.num
            /\ sw * l.num < (Banner.left_w + 1) * l.den
            /\ Banner.right_w * r.den <= sw * r.num
            /\ sw * r.num < (Banner.right_w + 1) * r.den
            /\ Banner.center_w = sw - Banner.left_w - Banner.right_w
            /\ Banner.left_w >= 0 /\ Banner.center_w >= 0 /\ Banner.right_w >= 0
            /\ Banner.boxes[1][1] = 0
            /\ Banner.boxes[1][3] = Banner.boxes[2][1]
            /\ Banner.boxes[2][3] = Banner.boxes[3][1]
            /\ Banner.boxes[3][3] = sw
            /\ Banner.boxes[1][3] - Banner.boxes[1][1] = Banner.left_w
            /\ Banner.boxes[2][3] - Banner.boxes[2][1] = Banner.center_w
            /\ Banner.boxes[3][3] - Banner.boxes[3][1] = Banner.right_w
            /\ \A i \in 1..3 : /\ Banner.boxes[i][2] = 0
                               /\ Banner.boxes[i][4] = bArgs.target_height

\* The spec's scenario: a 1000 x 200 template at height 63 cut by
\* (0.37, 0.38, 0.25) into bands of 116, 121 and 78 pixels.
C9_Witness ==
    /\ Built
    /\ bArgs.template = Size(1000, 200) /\ bArgs.target_height = 63
    /\ bArgs.slice_ratios = SLICE_RATIOS
    /\ Banner.scaled_w = 315
    /\ Banner.left_w = 116 /\ Banner.center_w = 121 /\ Banner.right_w = 78

\* C10, as stated: the scaled width is orig_width * target_height /
\* orig_height rounded to the nearest integer.
C10_ScaledWidthRounded ==
    (Built /\ PositiveBannerArgs) =>
        LET exact2 == 2 * bArgs.template.w * bArgs.target_height
            got2   == 2 * Banner.scaled_w * bArgs.template.h
        IN  /\ got2 - exact2 <= bArgs.template.h
            /\ exact2 - got2 <= bArgs.template.h

\* C10, amended: the scaled width is the double product
\* orig_width * (target_height / orig_height) truncated toward zero: never
\* above the exact quotient, less than two below it, and its exact floor
\* whenever orig_height does not divide orig_width * target_height; the
\* bands are cut from an image of that width and of height target_height.
C10_ScaledWidthTruncated ==
    (Built /\ PositiveBannerArgs) =>
        LET exact == bArgs.template.w * bArgs.target_height
            oh    == bArgs.template.h
        IN  /\ Banner.scaled_w * oh <= exact
            /\ exact < (Banner.scaled_w + 2) * oh
            /\ (exact % oh # 0 => exact < (Banner.scaled_w + 1) * oh)
            /\ (Banner.branch # "scale" =>
                   /\ Banner.boxes[3][3] = Banner.scaled_w
                   /\ Banner.boxes[3][4] = bArgs.target_height)

\* A template scaled to a width whose fraction, one half or more, was cut.
C10_Witness ==
    /\ Built /\ PositiveBannerArgs
    /\ Banner.status = "ok"
    /\ 2 * (bArgs.template.w * bArgs.target_height
            - Banner.scaled_w * bArgs.template.h) >= bArgs.template.h

Stitched == sRes # <<>>
Composite == sRes[1]

\* C6: process_image never calls build_adaptive_template with a
\* target_height below 1.
C6_BannerHeightClamped == Stitched => Composite.h1 >= 1

\* C7: the composite process_image returns has the photo's width and the
\* photo's height plus the banner's, the photo in rows [0, h) and the banner
\* in rows [h, h + banner.height); with a banner from the normal branch it
\* is w x (h + h1).
C7_CompositeSize ==
    (Stitched /\ Composite.status = "ok") =>
        LET w  == sArgs.photo.w
            h  == sArgs.photo.h
            bh == Composite.adapt.height
        IN  /\ Composite.width = w
            /\ Composite.height = h + bh
            /\ Composite.photo_box = <<0, 0, w, h>>
            /\ Composite.banner_box = <<0, h, Composite.adapt.width, h + bh>>
            /\ Composite.adapt.width = w
            /\ (Composite.adapt.branch = "normal" =>
                   Composite.height = h + Composite.h1)

\* The spec's scenario: photo 800 x 600, h1 = 63, template 1000 x 200,
\* composite 800 x 663.
C7_Witness ==
    /\ Stitched
    /\ sArgs.photo = Size(800, 600) /\ sArgs.template = Size(1000, 200)
    /\ sArgs.base_ratio = BASE_RATIO /\ sArgs.exponent = EXPONENT
    /\ Composite.status = "ok" /\ Composite.adapt.branch = "normal"
    /\ Composite.h1 = 63
    /\ Composite.width = 800 /\ Composite.height = 663

\* Whether exif.get(orientation_tag) of an image is v.
HasOrientation(img, v) ==
    img.exif.kind = "dict" /\ img.exif.has_tag /\ img.exif.orient = v

Turned(img, quarters, swap) ==
    [w |-> IF swap THEN img.h ELSE img.w,
     h |-> IF swap THEN img.w ELSE img.h,
     rot |-> (img.rot + quarters) % 4]

Pixels(img) == [w |-> img.w, h |-> img.h, rot |-> img.rot]

\* C8: correct_orientation always returns an image: rotated by 180, 270 or
\* 90 degrees (width and height swapped for the last two) for the
\* orientation values 3, 6 and 8, and the input itself in every other case;
\* applied twice to an image without an orientation tag it gives what it
\* gives applied once.
C8_OrientationTable ==
    /\ \A k \in 2..Len(oHist) :
          LET in  == oHist[k - 1]
              out == oHist[k]
          IN  /\ out.w \in Nat /\ out.h \in Nat /\ out.rot \in 0..3
              /\ HasOrientation(in, 3) => Pixels(out) = Turned(in, 2, FALSE)
              /\ HasOrientation(in, 6) => Pixels(out) = Turned(in, 3, TRUE)
              /\ HasOrientation(in, 8) => Pixels(out) = Turned(in, 1, TRUE)
              /\ ~(\E v \in {3, 6, 8} : HasOrientation(in, v)) => out = in
    /\ (Len(oHist) >= 3 /\ ~(oHist[1].exif.kind = "dict" /\ oHist[1].exif.has_tag))
           => oHist[3] = oHist[2] /\ oHist[2] = oHist[1]

\* A 1 x 2 image with orientation 6, corrected twice.
C8_Witness ==
    /\ Len(oHist) = 3
    /\ HasOrientation(oHist[1], 6)
    /\ oHist[1].w = 1 /\ oHist[1].h = 2
    /\ oHist[2].w = 2 /\ oHist[2].h = 1 /\ oHist[2].rot = 3

ImageExtensions == {"jpg", "JPG", "jpeg", "JPEG", "png", "PNG"}
ZipExtensions == {"zip", "ZIP"}

\* The photos of a batch in input order: uploads in upload order, the
\* image entries of a zip in archive order.
RECURSIVE BatchPhotos(_)
BatchPhotos(files) ==
    IF files = <<>> THEN <<>>
    ELSE LET f == Head(files)
         IN  (IF f.name.ext \in ZipExtensions
              THEN SelectSeq(f.entries,
                             LAMBDA e : e.name.ext \in ImageExtensions)
              ELSE <<[name |-> f.name, decodes |-> f.decodes,
                      photo |-> f.photo]>>)
             \o BatchPhotos(Tail(files))

NamesOf(photos) ==
    [k \in 1..Len(photos) |-> [prefix |-> "stitched_", name |-> photos[k].name]]

RunEnded == pc \in {"done", "crashed"}

\* C3: an input photo that fails to decode is the only one skipped: the run
\* ends without an uncaught exception and the archive holds every other
\* photo of the batch.  (Stated for batches whose decodable photos are all
\* large enough to be stitched.)
C3_DecodeFailureIsolated ==
    LET photos == BatchPhotos(uploads)
        good   == SelectSeq(photos, LAMBDA ph : ph.decodes)
    IN  (RunEnded /\ \A k \in 1..Len(good) : good[k].photo = Size(20, 10)) =>
            /\ pc = "done"
            /\ downloadOffered
            /\ archive = NamesOf(good)

\* C5: when every image of the batch decodes, the archive holds exactly one
\* entry stitched_<name> per input image, in input order.
C5_OneEntryPerImage ==
    LET photos == BatchPhotos(uploads)
    IN  (RunEnded /\ \A k \in 1..Len(photos) : photos[k].decodes) =>
            /\ pc = "done"
            /\ archive = NamesOf(photos)

RECURSIVE SumOfSizes(_)
SumOfSizes(files) ==
    IF files = <<>> THEN 0 ELSE Head(files).size + SumOfSizes(Tail(files))

Pressed == pc # "idle"

\* C4: "Process All" rejects the whole request, before any photo is
\* decoded or written and with no download offered, when no file is
\* uploaded, else when the sizes sum to more than 200 * 1024 * 1024 bytes,
\* else when the template does not load; photos are processed only after
\* all three checks pass.
C4_RequestRejectedFirst ==
    LET empty  == uploads = <<>>
        large  == SumOfSizes(uploads) > 200 * 1024 * 1024
        failed == ~templateFile.loads
    IN  Pressed =>
          /\ (pc = "rejected") = (empty \/ large \/ failed)
          /\ empty => errors =
                 <<"Please upload at least one photo or a ZIP file.">>
          /\ (~empty /\ large) => errors =
                 <<"Total upload size exceeds 200 MB. Please reduce the upload.">>
          /\ (~empty /\ ~large /\ failed) => errors =
                 <<"Cannot load template from 'logo_template.jpeg'.">>
          /\ pc = "rejected" =>
                 /\ decoded = 0 /\ archive = <<>> /\ ~downloadOffered
                 /\ cur = 0
          /\ (decoded > 0 \/ archive # <<>> \/ downloadOffered \/ cur > 0) =>
                 (~empty /\ ~large /\ ~failed /\ errors = <<>>)

\* Three files of 100 MB, 100 MB and 1 byte, rejected for their size although
\* the template is missing too.
C4_Witness ==
    /\ pc = "rejected"
    /\ Len(uploads) = 3
    /\ SumOfSizes(uploads) = 200 * 1024 * 1024 + 1
    /\ ~templateFile.loads
    /\ errors = <<"Total upload size exceeds 200 MB. Please reduce the upload.">>

====
